---- MODULE Spec2Model ----
(***************************************************************************)
(* Model of src/ss.py: create_directory_structure() and its nested         *)
(* recursive routine create_structure(base_path, structure), run against a *)
(* filesystem whose calls (os.path.exists, os.makedirs, open(path, 'w'))   *)
(* either complete or raise.                                               *)
(*                                                                         *)
(* A path is a sequence of names; <<>> is the working directory.  A tree   *)
(* is the ordered sequence of the (name, content) pairs of a dict; content *)
(* None is a node with file = TRUE, a nested dict a node with its kids.    *)
(***************************************************************************)
EXTENDS Integers, Sequences, FiniteSets, TLC

VARIABLES
    base,      \* base_dir handed to create_structure (ss.py:5, 325)
    tree,      \* the structure literal (ss.py:8-305)
    fs,        \* the filesystem: path -> entry
    stack,     \* call stack of create_structure: frames [path, items, i, entered]
    pc,        \* "run", "done" (message printed, returned), "raised" (uncaught OSError)
    err,       \* errno name of the exception that left create_directory_structure
    ops,       \* creation calls issued in the current run, in order
    stdout,    \* lines printed in the current run
    run,       \* number of the current run of the program
    fs0,       \* the filesystem when the current run started
    prev       \* the previous run: whether it succeeded, the filesystem it
               \* left (fs) and the one it started from (fs0)

vars == <<base, tree, fs, stack, pc, err, ops, stdout, run, fs0, prev>>

----------------------------------------------------------------------------
(* Bounds of the model *)

MaxFileLen == 1     \* longest pre-existing file
MaxRuns == 2        \* the program is run at most this many times in a row

----------------------------------------------------------------------------
(* Tree nodes and paths *)

FileNode(n) == [name |-> n, file |-> TRUE, kids |-> <<>>]
DirNode(n, k) == [name |-> n, file |-> FALSE, kids |-> k]

\* `content is None` (ss.py:316)
IsFileMarkerFalsy(node) == node.file \/ node.kids = <<>>
IsFileMarker(node) == node.file

\* os.path.join(base_path, name) for a plain name (ss.py:314)
Join(p, name) == Append(p, name)

Parent(p) == SubSeq(p, 1, Len(p) - 1)
IsPrefix(p, q) == Len(p) <= Len(q) /\ SubSeq(q, 1, Len(p)) = p
Prefixes(p) == {SubSeq(p, 1, k) : k \in 0..Len(p)}

\* The spec's scenario tree {"a.txt": FILE, "sub": {"b.txt": FILE}}
TreeScenario == <<FileNode("a"), DirNode("sub", <<FileNode("b")>>)>>
\* A directory first, holding an empty directory, then a file: nested dicts
\* are followed and preceded by files in the literal of ss.py
TreeNested == <<DirNode("sub", <<DirNode("sub", <<>>)>>), FileNode("b")>>
TreeEmpty == <<>>
Trees == {TreeScenario, TreeNested, TreeEmpty}

\* "lib" as in ss.py:5, and a base path with an intermediate ancestor
Bases == {<<"lib">>, <<"out", "lib">>}

----------------------------------------------------------------------------
(* The filesystem.  An entry has a kind, a length (files) and a write       *)
(* permission w: on a directory, whether entries may be created in it; on a *)
(* file, whether it may be opened for writing.                              *)

Absent == [kind |-> "absent", len |-> 0, w |-> TRUE]
DirEntry(w) == [kind |-> "dir", len |-> 0, w |-> w]
FileEntry(l, w) == [kind |-> "file", len |-> l, w |-> w]

RECURSIVE Nodes(_, _)
\* every node of structure t materialized under p: its computed path and kind
Nodes(p, t) ==
    UNION {{[path |-> Join(p, t[i].name), file |-> t[i].file]}
             \cup (IF t[i].file THEN {} ELSE Nodes(Join(p, t[i].name), t[i].kids))
           : i \in 1..Len(t)}

NodePaths(b, t) == {n.path : n \in Nodes(b, t)}
FilePaths(b, t) == {n.path : n \in {m \in Nodes(b, t) : m.file}}
DirPaths(b, t) == {n.path : n \in {m \in Nodes(b, t) : ~m.file}}

\* an entry of the base directory the tree does not name, and one outside it
Unrelated(b) == {Join(b, "x"), <<"other">>}
Universe(b, t) == Prefixes(b) \cup NodePaths(b, t) \cup Unrelated(b)

Kind(f, p) == IF p \in DOMAIN f THEN f[p].kind ELSE "absent"
IsDir(f, p) == Kind(f, p) = "dir"
\* os.path.exists (ss.py:309)
Exists(f, p) == Kind(f, p) # "absent"

\* mkdir(2), the call os.makedirs ends in
Mkdir(f, p) ==
    IF Exists(f, p) THEN [ok |-> FALSE, err |-> "EEXIST", fs |-> f]
    ELSE IF ~Exists(f, Parent(p)) THEN [ok |-> FALSE, err |-> "ENOENT", fs |-> f]
    ELSE IF ~IsDir(f, Parent(p)) THEN [ok |-> FALSE, err |-> "ENOTDIR", fs |-> f]
    ELSE IF ~f[Parent(p)].w THEN [ok |-> FALSE, err |-> "EACCES", fs |-> f]
    ELSE [ok |-> TRUE, err |-> "none", fs |-> [f EXCEPT ![p] = DirEntry(TRUE)]]

RECURSIVE MakedirsNoExistOk(_, _, _)
\* os.makedirs with exist_ok forgotten: an existing leaf is an error
MakedirsNoExistOk(f, p, exist_ok) ==
    LET head == Parent(p)
        up == IF Len(head) > 0 /\ ~Exists(f, head)
              THEN MakedirsNoExistOk(f, head, exist_ok)
              ELSE [ok |-> TRUE, err |-> "none", fs |-> f]
    IN  IF ~up.ok /\ up.err # "EEXIST" THEN up ELSE Mkdir(up.fs, p)

RECURSIVE Makedirs(_, _, _)
\* os.makedirs(name, exist_ok=...) (ss.py:310, 322): the missing ancestors first
\* (an EEXIST of theirs is swallowed), then mkdir of the leaf, whose error is
\* swallowed only with exist_ok and the leaf a directory
Makedirs(f, p, exist_ok) ==
    LET head == Parent(p)
        up == IF Len(head) > 0 /\ ~Exists(f, head)
              THEN Makedirs(f, head, exist_ok)
              ELSE [ok |-> TRUE, err |-> "none", fs |-> f]
    IN  IF ~up.ok /\ up.err # "EEXIST" THEN up
        ELSE LET m == Mkdir(up.fs, p)
             IN  IF m.ok THEN m
                 ELSE IF ~exist_ok \/ ~IsDir(up.fs, p) THEN m
                 ELSE [ok |-> TRUE, err |-> "none", fs |-> up.fs]


\* open(path, 'a'): an existing file keeps its contents
OpenA(f, p) ==
    IF IsDir(f, p) THEN [ok |-> FALSE, err |-> "EISDIR", fs |-> f]
    ELSE IF ~Exists(f, Parent(p)) THEN [ok |-> FALSE, err |-> "ENOENT", fs |-> f]
    ELSE IF ~IsDir(f, Parent(p)) THEN [ok |-> FALSE, err |-> "ENOTDIR", fs |-> f]
    ELSE IF Exists(f, p)
         THEN IF f[p].w THEN [ok |-> TRUE, err |-> "none", fs |-> f]
              ELSE [ok |-> FALSE, err |-> "EACCES", fs |-> f]
    ELSE IF ~f[Parent(p)].w THEN [ok |-> FALSE, err |-> "EACCES", fs |-> f]
    ELSE [ok |-> TRUE, err |-> "none", fs |-> [f EXCEPT ![p] = FileEntry(0, TRUE)]]

\* with open(path, 'w') as f: pass (ss.py:318-319): create the file or
\* truncate it; the handle is closed at once
OpenW(f, p) ==
    IF IsDir(f, p) THEN [ok |-> FALSE, err |-> "EISDIR", fs |-> f]
    ELSE IF ~Exists(f, Parent(p)) THEN [ok |-> FALSE, err |-> "ENOENT", fs |-> f]
    ELSE IF ~IsDir(f, Parent(p)) THEN [ok |-> FALSE, err |-> "ENOTDIR", fs |-> f]
    ELSE IF Exists(f, p)
         THEN IF f[p].w
              THEN [ok |-> TRUE, err |-> "none",
                    fs |-> [f EXCEPT ![p] = FileEntry(0, f[p].w)]]
              ELSE [ok |-> FALSE, err |-> "EACCES", fs |-> f]
    ELSE IF ~f[Parent(p)].w THEN [ok |-> FALSE, err |-> "EACCES", fs |-> f]
    ELSE [ok |-> TRUE, err |-> "none", fs |-> [f EXCEPT ![p] = FileEntry(0, TRUE)]]

----------------------------------------------------------------------------
(* The filesystems a run can start from: every placement of directories and *)
(* files on the universe of paths in which an entry's parent is a directory *)

Desc(p, U) == {q \in U : IsPrefix(p, q)}
Children(p, U) == {q \in U : Len(q) = Len(p) + 1 /\ Parent(q) = p}

\* the entries path p may hold before the run
Choices(p, b, t) ==
    LET dirs == IF p \in Prefixes(b) \cup DirPaths(b, t)
                THEN {DirEntry(w) : w \in BOOLEAN} ELSE {DirEntry(TRUE)}
        files == IF p \in FilePaths(b, t)
                 THEN {FileEntry(l, TRUE) : l \in 0..MaxFileLen}
                          \cup {FileEntry(MaxFileLen, FALSE)}
                 ELSE {FileEntry(MaxFileLen, TRUE)}
    IN  IF p = <<>> THEN dirs
        ELSE IF p = <<"other">> THEN files
        ELSE {Absent} \cup dirs \cup files

RECURSIVE SubFs(_, _, _, _)
RECURSIVE Combos(_, _, _, _)
\* the consistent assignments of entries to p and the paths below it
SubFs(p, U, b, t) ==
    UNION {IF c.kind = "dir"
           THEN {(p :> c) @@ g : g \in Combos(Children(p, U), U, b, t)}
           ELSE {[q \in Desc(p, U) |-> IF q = p THEN c ELSE Absent]}
           : c \in Choices(p, b, t)}
Combos(K, U, b, t) ==
    IF K = {} THEN {[q \in {} |-> Absent]}
    ELSE LET k == CHOOSE x \in K : TRUE
         IN  {f @@ g : f \in SubFs(k, U, b, t), g \in Combos(K \ {k}, U, b, t)}

InitialFs(b, t) == SubFs(<<>>, Universe(b, t), b, t)

----------------------------------------------------------------------------
(* The program *)

\* a call create_structure(base_path, structure) (ss.py:307): i is the position
\* of the for loop, entered says the base-path step (ss.py:309-310) is over
Frame(p, items) == [path |-> p, items |-> items, i |-> 1, entered |-> FALSE]

Top == stack[Len(stack)]
SetTop(f) == [stack EXCEPT ![Len(stack)] = f]

\* the record of a creation call: what was called on which path, whether it is
\* the call for a tree node, whether the directory holding the path was a
\* directory when the call was issued, and whether the call returned
Op(name, p, node, r) ==
    [op |-> name, path |-> p, node |-> node, parentDir |-> IsDir(fs, Parent(p)),
     ok |-> r.ok]

\* no try/except anywhere
RaisesNever(r) == FALSE
\* a refused call raises OSError (ss.py:310, 318, 322): nothing catches it
Raises(r) == ~r.ok

\* the statement after a filesystem call: the exception unwinds every frame
\* and leaves create_directory_structure (ss.py:325), or the walk goes on
Proceed(r, next) ==
    IF Raises(r)
    THEN pc' = "raised" /\ err' = r.err /\ stack' = <<>>
    ELSE pc' = pc /\ err' = err /\ stack' = next

Init ==
    /\ base \in Bases
    /\ tree \in Trees
    /\ fs \in InitialFs(base, tree)
    /\ stack = <<Frame(base, tree)>>
    /\ pc = "run"
    /\ err = "none"
    /\ ops = <<>>
    /\ stdout = <<>>
    /\ run = 1
    /\ fs0 = fs
    /\ prev = [ok |-> FALSE, fs |-> fs, fs0 |-> fs]

\* the base-path step written to start from a clean directory: an existing
\* base path is emptied first
EnterClean ==
    /\ pc = "run" /\ stack # <<>> /\ ~Top.entered
    /\ IF ~Exists(fs, Top.path)
       THEN LET r == Makedirs(fs, Top.path, FALSE)
            IN  /\ fs' = r.fs
                /\ ops' = Append(ops, Op("makedirs", Top.path, FALSE, r))
                /\ Proceed(r, SetTop([Top EXCEPT !.entered = TRUE]))
       ELSE /\ fs' = [q \in DOMAIN fs |->
                        IF IsPrefix(Top.path, q) /\ q # Top.path /\ IsDir(fs, Top.path)
                        THEN Absent ELSE fs[q]]
            /\ stack' = SetTop([Top EXCEPT !.entered = TRUE])
            /\ UNCHANGED <<ops, pc, err>>
    /\ UNCHANGED <<base, tree, stdout, run, fs0, prev>>

\* if not os.path.exists(base_path): os.makedirs(base_path) (ss.py:309-310)
Enter ==
    /\ pc = "run" /\ stack # <<>> /\ ~Top.entered
    /\ IF ~Exists(fs, Top.path)
       THEN LET r == Makedirs(fs, Top.path, FALSE)
            IN  /\ fs' = r.fs
                /\ ops' = Append(ops, Op("makedirs", Top.path, FALSE, r))
                /\ Proceed(r, SetTop([Top EXCEPT !.entered = TRUE]))
       ELSE /\ stack' = SetTop([Top EXCEPT !.entered = TRUE])
            /\ UNCHANGED <<fs, ops, pc, err>>
    /\ UNCHANGED <<base, tree, stdout, run, fs0, prev>>

\* the loop body for a name whose content is None (ss.py:313-319)
IterFile ==
    /\ pc = "run" /\ stack # <<>> /\ Top.entered /\ Top.i <= Len(Top.items)
    /\ IsFileMarker(Top.items[Top.i])
    /\ LET path == Join(Top.path, Top.items[Top.i].name)
           r == OpenW(fs, path)
       IN  /\ fs' = r.fs
           /\ ops' = Append(ops, Op("open", path, TRUE, r))
           /\ Proceed(r, SetTop([Top EXCEPT !.i = @ + 1]))
    /\ UNCHANGED <<base, tree, stdout, run, fs0, prev>>

\* the loop body for a dict with the recursive call left out
IterDirNoRecurse ==
    /\ pc = "run" /\ stack # <<>> /\ Top.entered /\ Top.i <= Len(Top.items)
    /\ ~IsFileMarker(Top.items[Top.i])
    /\ LET path == Join(Top.path, Top.items[Top.i].name)
           r == Makedirs(fs, path, TRUE)
       IN  /\ fs' = r.fs
           /\ ops' = Append(ops, Op("makedirs", path, TRUE, r))
           /\ Proceed(r, SetTop([Top EXCEPT !.i = @ + 1]))
    /\ UNCHANGED <<base, tree, stdout, run, fs0, prev>>

\* the loop body for a name whose content is a dict (ss.py:313-315, 320-323):
\* makedirs, then the recursive call
IterDir ==
    /\ pc = "run" /\ stack # <<>> /\ Top.entered /\ Top.i <= Len(Top.items)
    /\ ~IsFileMarker(Top.items[Top.i])
    /\ LET path == Join(Top.path, Top.items[Top.i].name)
           r == Makedirs(fs, path, TRUE)
       IN  /\ fs' = r.fs
           /\ ops' = Append(ops, Op("makedirs", path, TRUE, r))
           /\ Proceed(r, Append(SetTop([Top EXCEPT !.i = @ + 1]),
                                Frame(path, Top.items[Top.i].kids)))
    /\ UNCHANGED <<base, tree, stdout, run, fs0, prev>>

\* the for loop is exhausted: create_structure returns (ss.py:313)
Return ==
    /\ pc = "run" /\ stack # <<>> /\ Top.entered /\ Top.i > Len(Top.items)
    /\ stack' = SubSeq(stack, 1, Len(stack) - 1)
    /\ UNCHANGED <<base, tree, fs, pc, err, ops, stdout, run, fs0, prev>>

\* the message printed in a finally clause: also when the walk raised
PrintDoneFinally ==
    /\ pc \in {"run", "raised"} /\ stack = <<>> /\ stdout = <<>>
    /\ stdout' = Append(stdout, base)
    /\ pc' = IF pc = "run" THEN "done" ELSE pc
    /\ UNCHANGED <<base, tree, fs, stack, err, ops, run, fs0, prev>>

\* print(f"Directory structure created successfully under '{base_dir}'")
\* after the outermost call returned (ss.py:325-326)
PrintDone ==
    /\ pc = "run" /\ stack = <<>>
    /\ stdout' = Append(stdout, base)
    /\ pc' = "done"
    /\ UNCHANGED <<base, tree, fs, stack, err, ops, run, fs0, prev>>

\* the program is started again (ss.py:328-329), nothing else having written
Rerun ==
    /\ pc \in {"done", "raised"} /\ run < MaxRuns
    /\ run' = run + 1
    /\ prev' = [ok |-> pc = "done", fs |-> fs, fs0 |-> fs0]
    /\ fs0' = fs
    /\ stack' = <<Frame(base, tree)>>
    /\ pc' = "run"
    /\ err' = "none"
    /\ ops' = <<>>
    /\ stdout' = <<>>
    /\ UNCHANGED <<base, tree, fs>>

Step == Enter \/ IterFile \/ IterDir \/ Return \/ PrintDone

Next == Enter \/ IterFile \/ IterDir \/ Return \/ PrintDone \/ Rerun

Spec == Init /\ [][Next]_vars

\* every statement of the single thread runs to its end (spec section 5)
FairSpec == Spec /\ WF_vars(Step)

----------------------------------------------------------------------------
(* What the claims speak of *)

\* the outermost create_structure returned without raising
WalkReturned == pc = "run" /\ stack = <<>>
Completed == pc = "done" \/ WalkReturned

\* the creation calls issued for tree nodes, as (path, kind) pairs
RECURSIVE NodeOps(_)
NodeOps(o) ==
    IF o = <<>> THEN <<>>
    ELSE LET rest == NodeOps(SubSeq(o, 1, Len(o) - 1))
             last == o[Len(o)]
         IN  IF last.node
             THEN Append(rest, [path |-> last.path, file |-> last.op = "open"])
             ELSE rest

RECURSIVE PreOrder(_, _)
\* the nodes of t under p in depth-first pre-order, siblings in mapping order
PreOrder(p, t) ==
    IF t = <<>> THEN <<>>
    ELSE LET n == t[1]
             here == <<[path |-> Join(p, n.name), file |-> n.file]>>
             below == IF n.file THEN <<>> ELSE PreOrder(Join(p, n.name), n.kids)
         IN  here \o below \o PreOrder(p, Tail(t))

\* C1: after a run that completed without raising, every directory node of the
\* tree is a directory at its computed path (and so is the base path, whenever
\* the tree has a node at all).
C1_DirectoriesExist ==
    Completed =>
        /\ \A p \in DirPaths(base, tree) : IsDir(fs, p)
        /\ tree # <<>> => IsDir(fs, base)

\* a successful run that created a directory node two levels down
C1_Witness ==
    /\ pc = "done"
    /\ \E p \in DirPaths(base, tree) :
          Len(p) = Len(base) + 2 /\ ~Exists(fs0, p) /\ IsDir(fs, p)

\* C2: after a run that completed without raising, every file marker of the
\* tree is a regular file of length zero at its computed path, whether the path
\* was free before the run or held a file with contents.
C2_FilesEmpty ==
    Completed =>
        \A p \in FilePaths(base, tree) : fs[p].kind = "file" /\ fs[p].len = 0

\* a successful run that truncated one file and created another
C2_Witness ==
    /\ pc = "done"
    /\ \E p \in FilePaths(base, tree) : fs0[p].kind = "file" /\ fs0[p].len > 0
    /\ \E p \in FilePaths(base, tree) : ~Exists(fs0, p)

\* C3: a run that follows a successful run, with no other writer in between,
\* does not raise, and leaves the filesystem (entries, kinds, lengths) as the
\* first run left it.
C3_Idempotent ==
    (run > 1 /\ prev.ok) =>
        /\ pc # "raised"
        /\ pc = "done" => fs = prev.fs

\* a second successful run over files and directories the first run created
C3_Witness ==
    /\ run = 2 /\ prev.ok /\ pc = "done"
    /\ tree = TreeScenario
    /\ \E p \in NodePaths(base, tree) : ~Exists(prev.fs0, p)

\* the entry of the base directory that the tree does not name
Extra == Join(base, "x")

\* no call of the run can be refused: the directories the run creates in are
\* writable, and a path of the tree that is taken holds a writable entry of
\* the node's kind
NothingRefused ==
    /\ \A p \in {base} \cup DirPaths(base, tree) :
          Exists(fs0, p) => IsDir(fs0, p) /\ fs0[p].w
    /\ \A p \in FilePaths(base, tree) :
          Exists(fs0, p) => fs0[p].kind = "file" /\ fs0[p].w

\* C4: an entry that exists before a run and is not at the computed path of a
\* node of the tree keeps its kind and contents in every state of the run,
\* succeed or fail; and a run against a base path that is already a non-empty
\* directory, no call being refused, does not raise and ends with the tree's
\* entries beside the earlier ones.
C4_UnrelatedUntouched ==
    /\ \A p \in DOMAIN fs0 \ NodePaths(base, tree) :
          Exists(fs0, p) => fs[p] = fs0[p]
    /\ (IsDir(fs0, base) /\ Exists(fs0, Extra) /\ NothingRefused) =>
          /\ pc # "raised"
          /\ pc = "done" =>
                /\ \A p \in DirPaths(base, tree) : IsDir(fs, p)
                /\ \A p \in FilePaths(base, tree) : fs[p].kind = "file"
                /\ fs[Extra] = fs0[Extra]

\* a successful first run into a directory that held an unrelated file and
\* none of the tree's entries
C4_Witness ==
    /\ run = 1 /\ pc = "done" /\ tree # <<>>
    /\ fs0[Extra].kind = "file" /\ fs[Extra] = fs0[Extra]
    /\ \A p \in NodePaths(base, tree) : ~Exists(fs0, p) /\ Exists(fs, p)

\* C5: whenever a creation call is issued for a tree node, the path of the
\* node's parent (the base path for a top-level node) is a directory.
C5_ParentBeforeChild ==
    \A k \in 1..Len(ops) : ops[k].node => ops[k].parentDir

\* C6: a refused creation call ends the run: it is the last call of the run
\* and the only one for its path, the error leaves create_directory_structure,
\* no call follows it, and what the run's earlier calls created stays.
C6_StopsAtFirstFailure ==
    /\ [](\A k \in 1..Len(ops) :
             IF ops[k].ok
             THEN Kind(fs, ops[k].path) = (IF ops[k].op = "open" THEN "file" ELSE "dir")
             ELSE /\ k = Len(ops)
                  /\ pc = "raised" /\ err # "none" /\ stack = <<>>
                  /\ \A j \in 1..(k - 1) : ops[j].path # ops[k].path)
    /\ [][/\ \A p \in DOMAIN fs : Exists(fs, p) => Exists(fs', p)
          /\ pc = "raised" => fs' = fs /\ (ops' = ops \/ run' = run + 1)]_vars

\* a run that created entries and was then refused a creation
C6_Witness ==
    /\ pc = "raised" /\ Len(ops) >= 3
    /\ \E k \in 1..(Len(ops) - 1) : ~Exists(fs0, ops[k].path) /\ Exists(fs, ops[k].path)

\* the base path is unwritable: it is a directory in which, and in whose
\* directories, no entry may be created, or it is missing below such a directory
Unwritable ==
    IF Exists(fs0, base)
    THEN /\ IsDir(fs0, base)
         /\ \A p \in {base} \cup DirPaths(base, tree) : IsDir(fs0, p) => ~fs0[p].w
    ELSE \E a \in Prefixes(base) :
            /\ IsDir(fs0, a) /\ ~fs0[a].w
            /\ \A q \in Prefixes(base) : Len(q) > Len(a) => ~Exists(fs0, q)

\* C7 as stated: with the base path unwritable, a run that issues a creation
\* call fails at the first one, and the filesystem ends as it started.
C7_FailsAndLeavesNothing ==
    Unwritable =>
        /\ Completed => ops = <<>>
        /\ pc = "raised" => fs = fs0 /\ Len(ops) = 1

\* C7 as amended: with the base path unwritable the run creates no entry and
\* changes no entry but the files that already stood at file-marker paths,
\* which it truncates; it fails at the latest at the first call for a path that
\* does not exist yet, and completes only if every node already exists.
C7_CreatesNothing ==
    Unwritable =>
        /\ \A p \in DOMAIN fs : Exists(fs, p) => Exists(fs0, p)
        /\ \A p \in DOMAIN fs :
              \/ fs[p] = fs0[p]
              \/ /\ p \in FilePaths(base, tree) /\ fs0[p].kind = "file"
                 /\ fs[p] = FileEntry(0, fs0[p].w)
        /\ \A k \in 1..Len(ops) :
              ~Exists(fs0, ops[k].path) =>
                  ~ops[k].ok /\ k = Len(ops) /\ pc = "raised" /\ err = "EACCES"
        /\ Completed => \A p \in NodePaths(base, tree) : Exists(fs0, p)
        /\ (\A p \in FilePaths(base, tree) : ~Exists(fs0, p)) => fs = fs0

\* an unwritable base directory holding a file of the tree, which the run
\* truncated before it was refused the creation of the next entry
C7_Witness ==
    /\ Unwritable /\ pc = "raised" /\ err = "EACCES" /\ fs # fs0
    /\ ~Exists(fs0, ops[Len(ops)].path)

\* C8: the completion message, naming the base directory, is on standard
\* output exactly once when the run has succeeded, and then the creation call
\* of every node has returned; before that, and in a run that raised, nothing
\* is printed.
C8_MessageOnceOnSuccess ==
    /\ pc = "done" => stdout = <<base>>
    /\ pc # "done" => stdout = <<>>
    /\ stdout # <<>> =>
          /\ Len(NodeOps(ops)) = Cardinality(NodePaths(base, tree))
          /\ \A k \in 1..Len(ops) : ops[k].ok

\* the message printed after the calls for three nodes
C8_Witness ==
    /\ pc = "done" /\ stdout = <<base>> /\ Len(NodeOps(ops)) = 3

\* C9: once the base-path step of the outermost call is over, the base path
\* is a directory.
C9_BaseIsDirectory ==
    (pc = "run" /\ stack # <<>> /\ stack[1].entered) => IsDir(fs, base)

\* C10: every run ends, in success or at its first failure; the creation calls
\* issued for nodes are at every moment the first so many nodes of the tree in
\* depth-first pre-order, and all of them, each once, when the run succeeds.
C10_PreOrderOnceEach ==
    /\ [](LET done == NodeOps(ops)
              all == PreOrder(base, tree)
          IN  /\ Len(done) <= Len(all)
              /\ done = SubSeq(all, 1, Len(done))
              /\ Completed => done = all)
    /\ (pc = "run") ~> (pc \in {"done", "raised"})

\* a successful run over the tree whose first node is a directory holding a
\* directory, with a sibling after it
C10_Witness ==
    /\ pc = "done" /\ tree = TreeNested
    /\ NodeOps(ops) = PreOrder(base, tree) /\ Len(ops) >= 3

====
